---- MODULE Spec2Model ----
(***************************************************************************)
(* A model of the Elasticsearch indexer lambda of quilt,                   *)
(* src/lambdas/es/indexer/index.py: handler() walks the messages of one    *)
(* invocation and the S3 events of each message, resolves every event      *)
(* with a head request, extracts text, queues one document per event in a  *)
(* DocumentQueue and flushes the queue with bulk writes.                   *)
(*                                                                         *)
(* Python values are modelled as tagged records (None, str, dict), byte    *)
(* strings as sequences of byte classes, and text as sequences of          *)
(* characters, so that encoding, decoding, range requests and truncation   *)
(* are computed and not assumed.  The document fields _index, _type,       *)
(* last_modified and updated carry no decision of the code and are left    *)
(* out of the document record; events carry already percent-decoded field  *)
(* values.                                                                 *)
(***************************************************************************)
EXTENDS Integers, Sequences, FiniteSets, TLC

VARIABLES
    pc,          \* control point of handler() / DocumentQueue.send_all()
    msgIdx,      \* number of messages of event["Records"] taken so far
    nEvents,     \* len(events) of the message being processed
    evIdx,       \* number of events of the message taken so far
    cur,         \* locals of the current iteration of the event loop
    queue,       \* batch_processor.queue
    size,        \* batch_processor.size
    ret,         \* who called send_all: "append" or "end"
    errors,      \* per-document outcomes of the first bulk write
    send_again,  \* send_all's send_again, as references into queue
    errors2,     \* per-document outcomes of the second bulk write
    evLog,       \* history: what happened to every event of this message
    bulkLog,     \* history: the bulk writes issued for this message
    endFlushes,  \* history: end-of-message send_all calls of this message
    msgKind,     \* history: the kind of the message taken last
    retry        \* the retry loop of one retry_s3 call, followed on its own

vars == << pc, msgIdx, nEvents, evIdx, cur, queue, size, ret, errors,
           send_again, errors2, evLog, bulkLog, endFlushes, msgKind, retry >>

-----------------------------------------------------------------------------
(* Bounds of the model. *)

MaxMsgs == 2      \* messages per invocation
MaxEvents == 2    \* events per message
MaxAttemptSecs == 2  \* longest duration of one S3 request, in seconds

(* Program constants.  DOC_SIZE_LIMIT_BYTES (10_000 in the source) and     *)
(* QUEUE_LIMIT_BYTES (100_000_000 in the source) are scaled down so that   *)
(* objects larger than the document cap and queues larger than the queue   *)
(* threshold occur within a few events; the code only compares against     *)
(* them.                                                                   *)
DOC_SIZE_LIMIT_BYTES == 2
QUEUE_LIMIT_BYTES == 3

OBJECT_DELETE == "ObjectRemoved:Delete"
OBJECT_CREATED == "ObjectCreated:Put"
TEST_EVENT == "s3:TestEvent"
CONTENT_INDEX_EXTS ==
    {".csv", ".html", ".ipynb", ".json", ".md", ".rmd", ".txt", ".xml"}

-----------------------------------------------------------------------------
(* Python values. *)

None == [t |-> "none"]
Str(s) == [t |-> "str", s |-> s]
Dict(pairs) == [t |-> "dict", d |-> pairs]     \* pairs: a set of <<key, value>>
EmptyDict == Dict({})
Absent == [t |-> "absent"]                      \* a key the dict does not have

Min(a, b) == IF a < b THEN a ELSE b

\* bool(v)
Truthy(v) ==
    CASE v.t = "none" -> FALSE
      [] v.t = "str" -> v.s # ""
      [] v.t = "dict" -> v.d # {}
      [] OTHER -> TRUE

HasKey(dict, k) == \E p \in dict.d : p[1] = k

\* dict.get(k, default)
Get(dict, k, default) ==
    IF HasKey(dict, k) THEN (CHOOSE p \in dict.d : p[1] = k)[2] ELSE default

\* the dict left by dict.pop(k, ...)
Without(dict, k) == Dict({p \in dict.d : p[1] # k})

\* dict[k] = v
With(dict, k, v) == Dict({p \in dict.d : p[1] # k} \cup {<<k, v>>})

\* f"{v}" of a str or None
Format(v) == IF v.t = "none" THEN "None" ELSE v.s

\* " ".join(parts)
RECURSIVE Join(_)
Join(parts) ==
    IF parts = << >> THEN ""
    ELSE IF Len(parts) = 1 THEN parts[1]
    ELSE parts[1] \o " " \o Join(Tail(parts))

-----------------------------------------------------------------------------
(* JSON texts of the inputs, and what json.loads / json.dumps do on them. *)

JSON_FULL == "{\"user_meta\": {\"k\": \"v\"}, \"comment\": \"c\", \"version\": \"1\"}"
JSON_TARGET == "{\"target\": \"t\"}"
JSON_BAD == "{bad"
JSON_USER == "{\"k\": \"v\"}"
JSON_VERSION == "{\"version\": \"1\"}"

UserMeta == Dict({<<"k", Str("v")>>})
HeliumFull ==
    Dict({<<"user_meta", UserMeta>>, <<"comment", Str("c")>>, <<"version", Str("1")>>})
HeliumTarget == Dict({<<"target", Str("t")>>})
HeliumRest == Dict({<<"version", Str("1")>>})

\* json.loads(s): the parsed value, or raises json.JSONDecodeError
JsonLoads(s) ==
    CASE s = JSON_FULL -> [raises |-> FALSE, value |-> HeliumFull]
      [] s = JSON_TARGET -> [raises |-> FALSE, value |-> HeliumTarget]
      [] s = "{}" -> [raises |-> FALSE, value |-> EmptyDict]
      [] OTHER -> [raises |-> TRUE, value |-> None]

\* json.dumps(v)
JsonDumps(v) ==
    CASE v = HeliumFull -> JSON_FULL
      [] v = HeliumTarget -> JSON_TARGET
      [] v = UserMeta -> JSON_USER
      [] v = HeliumRest -> JSON_VERSION
      [] OTHER -> "{}"

-----------------------------------------------------------------------------
(* UTF-8.  A character is "a" (one byte) or "e" (two bytes); a byte is "a" *)
(* (ASCII), "L" (lead byte of a two-byte sequence) or "c" (continuation    *)
(* byte).                                                                  *)

\* str.encode("utf-8")
RECURSIVE Encode(_)
Encode(text) ==
    IF text = << >> THEN << >>
    ELSE (IF Head(text) = "a" THEN <<"a">> ELSE <<"L", "c">>) \o Encode(Tail(text))

\* bytes.decode("utf-8", "ignore"): undecodable bytes are dropped
RECURSIVE DecodeIgnore(_)
DecodeIgnore(bytes) ==
    IF bytes = << >> THEN << >>
    ELSE IF Head(bytes) = "a" THEN <<"a">> \o DecodeIgnore(Tail(bytes))
    ELSE IF Head(bytes) = "L" /\ Len(bytes) >= 2 /\ bytes[2] = "c"
         THEN <<"e">> \o DecodeIgnore(Tail(Tail(bytes)))
    ELSE DecodeIgnore(Tail(bytes))

\* does bytes.decode("utf-8") raise UnicodeDecodeError?
RECURSIVE Undecodable(_)
Undecodable(bytes) ==
    IF bytes = << >> THEN FALSE
    ELSE IF Head(bytes) = "a" THEN Undecodable(Tail(bytes))
    ELSE IF Head(bytes) = "L" /\ Len(bytes) >= 2 /\ bytes[2] = "c"
         THEN Undecodable(Tail(Tail(bytes)))
    ELSE TRUE

\* len(text.encode("utf-8"))
Utf8Len(text) == Len(Encode(text))

\* trim_to_bytes(string, limit=DOC_SIZE_LIMIT_BYTES)
trim_to_bytes(string) ==
    LET encoded == Encode(string)
    IN IF Len(encoded) <= DOC_SIZE_LIMIT_BYTES THEN string
       ELSE DecodeIgnore(SubSeq(encoded, 1, DOC_SIZE_LIMIT_BYTES))

-----------------------------------------------------------------------------
(* The objects of the bucket that the events of a message may refer to.    *)
(* A key is <<stem, extension>>; body is the object's bytes; helium is the *)
(* raw value of the "helium" entry of the object's metadata, Absent when   *)
(* the metadata has none.                                                  *)

Obj(stem, ext, version, body, helium) ==
    [key |-> <<stem, ext>>, versionId |-> version, eTag |-> "etag-" \o stem,
     body |-> body, helium |-> helium]

Objects ==
    << Obj("a", ".txt", Str("v1"), <<"a", "a", "a">>, Str(JSON_FULL)),
       Obj("n", ".ipynb", None, <<"a", "a">>, Absent),
       Obj("b", ".bin", None, <<"a">>, Str(JSON_TARGET)),
       Obj("c", ".txt", None, <<"a", "a", "L", "c">>, Absent),
       Obj("d", ".TXT", Str("v2"), <<"a">>, Str("{}")),
       Obj("e", ".txt", None, << >>, Str("")),
       Obj("g", ".txt", None, <<"a", "a">>, Str(JSON_BAD)),
       Obj("m", ".ipynb", None, <<"L">>, Str(JSON_BAD)),
       Obj("h", ".bin", None, <<"a">>, Str(JSON_BAD)) >>

ObjIds == DOMAIN Objects

\* what the notebook parser (nbformat.reads, then the cell loop) may make of a
\* notebook body: it raises, or returns the joined cell sources
NbTexts == { <<"a">>, <<"a", "e">>, <<"a", "a", "a">> }

\* the objects that delete events are about: one with a version id and one
\* without (the handler reads nothing else of a deleted object)
DeletedObjIds == {1, 2}

\* an S3 event: its eventName, the object its s3 fields refer to, and whether
\* all the fields the handler reads are there
Events ==
    [eventName : {OBJECT_CREATED}, o : ObjIds, wellformed : {TRUE}]
    \cup [eventName : {OBJECT_DELETE}, o : DeletedObjIds, wellformed : {TRUE}]
    \cup {[eventName |-> OBJECT_CREATED, o |-> 1, wellformed |-> FALSE]}

\* the str of a key
KeyStr(key) == key[1] \o key[2]

\* str.lower() of an extension
Lower(ext) == IF ext = ".TXT" THEN ".txt" ELSE ext

\* os.path.splitext(key)[1].lower()
ExtOf(key) == Lower(key[2])

\* head["Metadata"]
MetadataOf(o) ==
    IF Objects[o].helium = Absent THEN EmptyDict
    ELSE Dict({<<"helium", Objects[o].helium>>})

-----------------------------------------------------------------------------
(* retry_s3: the keyword arguments of the request, and the object store's  *)
(* answer to a get.                                                        *)

\* arguments of function_(**arguments); size is 0 where the caller passes none
\* a variant of S3Arguments that sets IfMatch whether or not there is a
\* version id
S3ArgumentsAlwaysIfMatch(operation, sz, etag, version_id) ==
    [Range |-> IF sz # 0 /\ operation = "get"
               THEN [first |-> 0, last |-> DOC_SIZE_LIMIT_BYTES]
               ELSE Absent,
     VersionId |-> IF Truthy(version_id) THEN version_id ELSE Absent,
     IfMatch |-> Str(etag)]

S3Arguments(operation, sz, etag, version_id) ==
    [Range |-> IF sz # 0 /\ operation = "get"
               THEN [first |-> 0, last |-> DOC_SIZE_LIMIT_BYTES]
               ELSE Absent,
     VersionId |-> IF Truthy(version_id) THEN version_id ELSE Absent,
     IfMatch |-> IF Truthy(version_id) THEN Absent ELSE Str(etag)]

\* obj["Body"].read(): a Range of bytes=first-last is inclusive at both ends
GetObjectBody(o, arguments) ==
    LET body == Objects[o].body
    IN IF arguments.Range = Absent THEN body
       ELSE SubSeq(body, arguments.Range.first + 1,
                   Min(Len(body), arguments.Range.last + 1))

\* get_plain_text, once retry_s3 has returned obj
PlainText(bytes) == IF Undecodable(bytes) THEN << >> ELSE DecodeIgnore(bytes)

-----------------------------------------------------------------------------
(* transform_meta and the document built by DocumentQueue.append.          *)

\* value or ""
OrEmpty(v) == IF Truthy(v) THEN v ELSE Str("")

transform_meta(meta) ==
    LET helium == Get(meta, "helium", None)
        popped == IF helium.t = "dict"
                  THEN Without(Without(Without(helium, "user_meta"), "comment"), "target")
                  ELSE helium
        user_meta == IF Truthy(helium) THEN Get(helium, "user_meta", EmptyDict)
                     ELSE EmptyDict
        comment == IF Truthy(helium) THEN OrEmpty(Get(helium, "comment", Str("")))
                   ELSE Str("")
        target == IF Truthy(helium) THEN OrEmpty(Get(helium, "target", Str("")))
                  ELSE Str("")
        parts == <<comment.s, target.s>>
                 \o (IF Truthy(popped) THEN <<JsonDumps(popped)>> ELSE << >>)
                 \o (IF Truthy(user_meta) THEN <<JsonDumps(user_meta)>> ELSE << >>)
    IN IF Truthy(helium) /\ helium.t # "dict"
       THEN \* helium.pop: 'str' object has no attribute 'pop'
            [raises |-> TRUE]
       ELSE [raises |-> FALSE,
             system_meta |-> popped,
             user_meta |-> user_meta,
             comment |-> comment,
             target |-> target,
             meta_text |-> Join(parts)]

\* "delete" if event_type == OBJECT_DELETE else "index"
OpType(event_type) == IF event_type = OBJECT_DELETE THEN "delete" ELSE "index"

\* f"{key}:{version_id}"
DocId(key, version_id) == KeyStr(key) \o ":" \o Format(version_id)

\* the body dict of append, lines 98-123; ev is the number of the event the
\* document was built for (history, not a field of the code's dict)
MakeDoc(event_type, sz, tm, ext, key, text, etag, version_id, ev) ==
    [_id |-> DocId(key, version_id),
     _op_type |-> OpType(event_type),
     etag |-> etag,
     ext |-> ext,
     event |-> event_type,
     size |-> sz,
     text |-> text,
     key |-> KeyStr(key),
     version_id |-> version_id,
     system_meta |-> tm.system_meta,
     user_meta |-> tm.user_meta,
     comment |-> tm.comment,
     target |-> tm.target,
     meta_text |-> Join(<<tm.meta_text, KeyStr(key)>>),
     system |-> Absent,
     ev |-> ev]

\* self.size after lines 92-95
SizeAfterAdd(text, sz) ==
    IF text # << >> THEN size + Min(sz, DOC_SIZE_LIMIT_BYTES) ELSE size

\* a variant of OverQueueLimit with which append never flushes
OverQueueLimitNever(sz) == FALSE

\* self.size > QUEUE_LIMIT_BYTES, line 127
OverQueueLimit(sz) == sz > QUEUE_LIMIT_BYTES

-----------------------------------------------------------------------------
(* get_contents and its two readers. *)

\* get_notebook_cells: got is whether retry_s3 returned, nb what the parser
\* makes of the decoded body; every exception ends in text = ""
get_notebook_cells(bytes, got, nb) ==
    IF ~got \/ Undecodable(bytes) \/ nb.raises THEN << >> ELSE nb.text

\* get_contents for a notebook: the cells, trimmed
NotebookContents(bytes, got, nb) == trim_to_bytes(get_notebook_cells(bytes, got, nb))

\* the branch of get_contents an extension takes
ContentBranch(ext) ==
    IF ext \in CONTENT_INDEX_EXTS
    THEN (IF ext = ".ipynb" THEN "notebook" ELSE "plain")
    ELSE "none"

-----------------------------------------------------------------------------
(* DocumentQueue.send_all: the selection of the documents to send again.   *)

MAPPER_PARSING == "mapper_parsing_exception"
VERSION_CONFLICT == "version_conflict_engine_exception"

\* the outcome of one document in a bulk write: "ok", or the type of its error
Outcomes == {"ok", MAPPER_PARSING, VERSION_CONFLICT}

\* 'mapper_parsing_exception' in type_
IsMapperParsing(type_) == type_ = MAPPER_PARSING

\* lines 169-176: is the error of document doc one that is sent again?
Resubmit(doc, outcome) ==
    /\ outcome # "ok"
    /\ doc._op_type = "index"
    /\ IsMapperParsing(outcome)

\* id_to_doc[id_] of line 167/178: a later document of the same _id replaces
\* an earlier one in the dict, so the lookup yields the last one
IdToDoc(q, id_) == CHOOSE i \in 1..Len(q) :
    /\ q[i]._id = id_
    /\ \A j \in (i+1)..Len(q) : q[j]._id # id_

\* send_again after the loop over errors: one reference per selected error
RECURSIVE SendAgain(_, _, _)
SendAgain(q, outs, i) ==
    IF i > Len(q) THEN << >>
    ELSE (IF Resubmit(q[i], outs[i]) THEN <<IdToDoc(q, q[i]._id)>> ELSE << >>)
         \o SendAgain(q, outs, i + 1)

\* doc['user_meta'] = doc['system'] = {}, line 179
Sanitize(doc) == [doc EXCEPT !.user_meta = EmptyDict, !.system = EmptyDict]

\* what a bulk write is remembered by
DocRefs(q) ==
    [i \in 1..Len(q) |->
        [ev |-> q[i].ev, _id |-> q[i]._id, _op_type |-> q[i]._op_type, text |-> q[i].text]]

SeqRange(s) == {s[i] : i \in 1..Len(s)}

-----------------------------------------------------------------------------
(* The handler. *)

NoCur == [event_name |-> "", o |-> 0, size |-> 0, meta |-> EmptyDict, text |-> << >>]

\* a variant of OnEventException in which the except clause encloses the
\* event loop, so that a failing event ends the message
OnEventExceptionAbort == "msg"

\* a variant of OnBadEnvelope in which the handler skips the message
OnBadEnvelopeSkip == "msg"

\* where the handler ends up when json.loads of the envelope raises: nothing
\* catches the exception, it leaves the invocation
OnBadEnvelope == "raised"

\* where the handler goes on after the except clause of the event loop
OnEventException == "event"

\* a variant of AfterHead without the delete branch: every event goes on to
\* get_contents
AfterHeadAlwaysExtract(event_name) == "get_contents"

\* where the handler goes on after a successful head, lines 389-400
AfterHead(event_name) ==
    IF event_name = OBJECT_DELETE THEN "append_delete" ELSE "get_contents"

\* no retry_s3 call is being followed
NoRetry == [pc |-> "none"]

NewEntry(e) ==
    [e |-> e, outcome |-> "running", head |-> "none", gets |-> 0, added |-> -1,
     flushes |-> 0, get |-> "none", parsed |-> "none"]

LastLog(field, value) == [evLog EXCEPT ![Len(evLog)][field] = value]

Init ==
    /\ pc = "msg"
    /\ msgIdx = 0
    /\ nEvents = 0
    /\ evIdx = 0
    /\ cur = NoCur
    /\ queue = << >>
    /\ size = 0
    /\ ret = "none"
    /\ errors = << >>
    /\ send_again = << >>
    /\ errors2 = << >>
    /\ evLog = << >>
    /\ bulkLog = << >>
    /\ endFlushes = 0
    /\ msgKind = "none"
    /\ retry = NoRetry

sendVars == << ret, errors, send_again, errors2 >>

\* lines 348-350: the envelope of the next message does not parse
BadEnvelope ==
    /\ pc = "msg" /\ msgIdx < MaxMsgs
    /\ UNCHANGED retry
    /\ msgIdx' = msgIdx + 1
    /\ msgKind' = "bad_envelope"
    /\ pc' = OnBadEnvelope
    /\ UNCHANGED << nEvents, evIdx, cur, queue, size, sendVars, evLog, bulkLog, endFlushes >>

\* lines 351-355: the next message is the SQS test event
TestEventMessage ==
    /\ pc = "msg" /\ msgIdx < MaxMsgs
    /\ UNCHANGED retry
    /\ msgIdx' = msgIdx + 1
    /\ msgKind' = "test_event"
    /\ pc' = "msg"
    /\ evLog' = << >> /\ bulkLog' = << >> /\ endFlushes' = 0
    /\ UNCHANGED << nEvents, evIdx, cur, queue, size, sendVars >>

\* lines 348-360: the next message has n events (none when it has no Records),
\* n being at most maxEvents
RecordsMessageOf(maxEvents) ==
    /\ pc = "msg" /\ msgIdx < MaxMsgs
    /\ UNCHANGED retry
    /\ \E kind \in {"records", "no_records"} :
       \E n \in 0..maxEvents :
          /\ kind = "no_records" => n = 0
          /\ msgKind' = kind
          /\ nEvents' = n
    /\ msgIdx' = msgIdx + 1
    /\ evIdx' = 0
    /\ cur' = NoCur
    /\ queue' = << >>
    /\ size' = 0
    /\ evLog' = << >> /\ bulkLog' = << >> /\ endFlushes' = 0
    /\ pc' = "event"
    /\ UNCHANGED sendVars

RecordsMessage == RecordsMessageOf(MaxEvents)

\* line 348: event["Records"] is exhausted
HandlerReturn ==
    /\ pc = "msg"
    /\ UNCHANGED retry
    /\ pc' = "done"
    /\ UNCHANGED << msgIdx, nEvents, evIdx, cur, queue, size, sendVars, evLog,
                    bulkLog, endFlushes, msgKind >>

\* lines 362-372: take the next event, one of events, and read its fields
BeginEventOf(events) ==
    /\ pc = "event" /\ evIdx < nEvents
    /\ UNCHANGED retry
    /\ \E e \in events :
         /\ evIdx' = evIdx + 1
         /\ IF e.wellformed
            THEN /\ cur' = [NoCur EXCEPT !.event_name = e.eventName, !.o = e.o]
                 /\ evLog' = Append(evLog, NewEntry(e))
                 /\ pc' = "head"
            ELSE \* KeyError
                 /\ cur' = NoCur
                 /\ evLog' = Append(evLog, [NewEntry(e) EXCEPT !.outcome = "raised"])
                 /\ pc' = OnEventException
    /\ UNCHANGED << msgIdx, nEvents, queue, size, sendVars, bulkLog, endFlushes, msgKind >>

BeginEvent == BeginEventOf(Events)

\* lines 374-400: retry_s3("head"), which returns or raises when the retries
\* are exhausted
HeadObject ==
    /\ pc = "head"
    /\ UNCHANGED retry
    /\ \E ok \in BOOLEAN :
         IF ok
         THEN /\ cur' = [cur EXCEPT !.size = Len(Objects[cur.o].body),
                                    !.meta = MetadataOf(cur.o)]
              /\ evLog' = LastLog("head", "ok")
              /\ pc' = AfterHead(cur.event_name)
         ELSE /\ cur' = cur
              /\ evLog' = [LastLog("head", "failed") EXCEPT ![Len(evLog)].outcome = "raised"]
              /\ pc' = OnEventException
    /\ UNCHANGED << msgIdx, nEvents, evIdx, queue, size, sendVars, bulkLog,
                    endFlushes, msgKind >>

\* lines 402-413: get_contents
GetContents ==
    /\ pc = "get_contents"
    /\ UNCHANGED retry
    /\ LET o == cur.o
           ext == ExtOf(Objects[o].key)
           arguments == S3Arguments("get", cur.size, Objects[o].eTag, Objects[o].versionId)
           bytes == GetObjectBody(o, arguments)
           requested == LastLog("gets", evLog[Len(evLog)].gets + 1)
       IN CASE ContentBranch(ext) = "none" ->
                 /\ cur' = [cur EXCEPT !.text = << >>]
                 /\ evLog' = evLog
                 /\ pc' = "helium"
            [] ContentBranch(ext) = "notebook" ->
                 \E got \in BOOLEAN :
                 \E nb \in {[raises |-> TRUE, text |-> << >>]}
                           \cup [raises : {FALSE}, text : NbTexts] :
                    /\ cur' = [cur EXCEPT !.text = NotebookContents(bytes, got, nb)]
                    /\ evLog' = [requested EXCEPT
                                    ![Len(evLog)].get = IF got THEN "ok" ELSE "failed",
                                    ![Len(evLog)].parsed =
                                        IF ~got THEN "none"
                                        ELSE IF Undecodable(bytes) \/ nb.raises
                                        THEN "failed" ELSE "ok"]
                    /\ pc' = "helium"
            [] ContentBranch(ext) = "plain" ->
                 \E got \in BOOLEAN :
                    IF got
                    THEN /\ cur' = [cur EXCEPT !.text = PlainText(bytes)]
                         /\ evLog' = [requested EXCEPT
                                         ![Len(evLog)].get = "ok",
                                         ![Len(evLog)].parsed =
                                             IF Undecodable(bytes) THEN "failed" ELSE "ok"]
                         /\ pc' = "helium"
                    ELSE \* retry_s3 raises out of get_plain_text and get_contents
                         /\ cur' = cur
                         /\ evLog' = [requested EXCEPT ![Len(evLog)].outcome = "raised",
                                                        ![Len(evLog)].get = "failed"]
                         /\ pc' = OnEventException
    /\ UNCHANGED << msgIdx, nEvents, evIdx, queue, size, sendVars, bulkLog,
                    endFlushes, msgKind >>

\* lines 415-419: meta after the attempt to parse meta["helium"]
ParseHelium(meta) ==
    IF HasKey(meta, "helium")
    THEN LET loaded == JsonLoads(Get(meta, "helium", None).s)
         IN IF loaded.raises THEN meta ELSE With(meta, "helium", loaded.value)
    ELSE meta

\* a variant of append_document that puts the document in front
append_document_front(q, doc) == <<doc>> \o q

\* self.queue after DocumentQueue.append_document, lines 130-132
append_document(q, doc) == Append(q, doc)

\* DocumentQueue.append, lines 92-128, up to the call of send_all
Append_(event_type, sz, meta, text) ==
    LET after == SizeAfterAdd(text, sz)
        tm == transform_meta(meta)
        o == Objects[cur.o]
        doc == MakeDoc(event_type, sz, tm, ExtOf(o.key), o.key, text, o.eTag,
                       o.versionId, evIdx)
    IN /\ size' = after
       /\ IF tm.raises
          THEN /\ queue' = queue
               /\ evLog' = [LastLog("added", after) EXCEPT ![Len(evLog)].outcome = "raised"]
               /\ pc' = OnEventException
               /\ ret' = ret
          ELSE /\ queue' = append_document(queue, doc)
               /\ evLog' = [LastLog("added", after) EXCEPT ![Len(evLog)].outcome = "queued"]
               /\ IF OverQueueLimit(after)
                  THEN pc' = "send_first" /\ ret' = "append"
                  ELSE pc' = "event" /\ ret' = ret

\* lines 389-400: the document of a permanent delete
AppendDelete ==
    /\ pc = "append_delete"
    /\ UNCHANGED retry
    /\ Append_(cur.event_name, 0, EmptyDict, << >>)
    /\ UNCHANGED << msgIdx, nEvents, evIdx, cur, errors, send_again, errors2,
                    bulkLog, endFlushes, msgKind >>

\* lines 414-432: parse the helium metadata and queue the document
ParseAndAppend ==
    /\ pc = "helium"
    /\ UNCHANGED retry
    /\ Append_(cur.event_name, cur.size, ParseHelium(cur.meta), cur.text)
    /\ UNCHANGED << msgIdx, nEvents, evIdx, cur, errors, send_again, errors2,
                    bulkLog, endFlushes, msgKind >>

\* a variant of EndOfEvents that calls send_all only for a non-empty queue
EndOfEventsUnlessEmpty ==
    /\ pc = "event" /\ evIdx = nEvents
    /\ UNCHANGED retry
    /\ IF queue = << >>
       THEN pc' = "msg" /\ ret' = ret /\ endFlushes' = endFlushes
       ELSE pc' = "send_first" /\ ret' = "end" /\ endFlushes' = endFlushes + 1
    /\ UNCHANGED << msgIdx, nEvents, evIdx, cur, queue, size, errors, send_again,
                    errors2, evLog, bulkLog, msgKind >>

\* line 438 and lines 140-141: the end-of-message send_all
EndOfEvents ==
    /\ pc = "event" /\ evIdx = nEvents
    /\ UNCHANGED retry
    /\ endFlushes' = endFlushes + 1
    /\ IF queue = << >>
       THEN pc' = "msg" /\ ret' = ret
       ELSE pc' = "send_first" /\ ret' = "end"
    /\ UNCHANGED << msgIdx, nEvents, evIdx, cur, queue, size, errors, send_again,
                    errors2, evLog, bulkLog, msgKind >>

\* lines 166-180: the first bulk write and the selection of send_again
SendFirst ==
    /\ pc = "send_first"
    /\ UNCHANGED retry
    /\ \E outs \in [1..Len(queue) -> Outcomes] :
         LET again == SendAgain(queue, outs, 1)
         IN /\ errors' = outs
            /\ send_again' = again
            /\ queue' = [i \in 1..Len(queue) |->
                           IF i \in SeqRange(again) THEN Sanitize(queue[i]) ELSE queue[i]]
    /\ bulkLog' = Append(bulkLog, [kind |-> "first", docs |-> DocRefs(queue)])
    /\ evLog' = IF ret = "append"
                THEN LastLog("flushes", evLog[Len(evLog)].flushes + 1)
                ELSE evLog
    /\ pc' = "send_second"
    /\ UNCHANGED << msgIdx, nEvents, evIdx, cur, size, ret, errors2, endFlushes, msgKind >>

\* line 182: the second bulk write
SendSecond ==
    /\ pc = "send_second"
    /\ UNCHANGED retry
    /\ \E outs \in [1..Len(send_again) -> Outcomes] :
         /\ errors2' = outs
         /\ bulkLog' = Append(bulkLog,
               [kind |-> "second",
                docs |-> DocRefs([i \in 1..Len(send_again) |-> queue[send_again[i]]]),
                failed |-> \E i \in 1..Len(send_again) : outs[i] # "ok"])
    /\ pc' = "send_clear"
    /\ errors' = << >>
    /\ UNCHANGED << msgIdx, nEvents, evIdx, cur, queue, size, ret, send_again,
                    evLog, endFlushes, msgKind >>

\* a variant of Cleared that resets the counter and keeps the documents
ClearedKeepsQueue == [queue |-> queue, size |-> 0]

\* the queue and the counter after lines 184-185
Cleared == [queue |-> << >>, size |-> 0]

\* lines 184-185, and the return to the caller
SendClear ==
    /\ pc = "send_clear"
    /\ UNCHANGED retry
    /\ queue' = Cleared.queue
    /\ size' = Cleared.size
    /\ pc' = IF ret = "append" THEN "event" ELSE "msg"
    /\ ret' = "none" /\ errors' = << >> /\ send_again' = << >> /\ errors2' = << >>
    /\ UNCHANGED << msgIdx, nEvents, evIdx, cur, evLog, bulkLog, endFlushes, msgKind >>

Next ==
    \/ BadEnvelope
    \/ TestEventMessage
    \/ RecordsMessage
    \/ HandlerReturn
    \/ BeginEvent
    \/ HeadObject
    \/ GetContents
    \/ AppendDelete
    \/ ParseAndAppend
    \/ EndOfEvents
    \/ SendFirst
    \/ SendSecond
    \/ SendClear

Spec == Init /\ [][Next]_vars

-----------------------------------------------------------------------------
(* The handler on longer messages whose events are deletions of n.ipynb and
   creations of d.TXT, an object of one byte. *)

\* events per message: as many as it takes to exceed QUEUE_LIMIT_BYTES + 1
\* documents
MaxEventsLong == QUEUE_LIMIT_BYTES + 2

EventsLong ==
    {e \in Events :
        /\ e.wellformed
        /\ <<e.eventName, Objects[e.o].key[1]>>
              \in {<<OBJECT_DELETE, "n">>, <<OBJECT_CREATED, "d">>}}

RecordsMessageLong == RecordsMessageOf(MaxEventsLong)

BeginEventLong == BeginEventOf(EventsLong)

NextLong ==
    \/ BadEnvelope
    \/ TestEventMessage
    \/ RecordsMessageLong
    \/ HandlerReturn
    \/ BeginEventLong
    \/ HeadObject
    \/ GetContents
    \/ AppendDelete
    \/ ParseAndAppend
    \/ EndOfEvents
    \/ SendFirst
    \/ SendSecond
    \/ SendClear

SpecLong == Init /\ [][NextLong]_vars

-----------------------------------------------------------------------------
(* One call of retry_s3, lines 440-486, followed attempt by attempt.  The
   loop is the one that tenacity's @retry wraps around call(): the request
   is attempted; when it raises, the stop condition is evaluated on the
   attempt number and on the seconds elapsed since the first attempt began;
   unless it says stop, the loop sleeps for wait_exponential's delay and
   attempts again.  Time is counted in whole seconds from the entry of
   retry_s3. *)

MAX_RETRY == 10

\* values of get_time_remaining(context), lines 297-306: whole seconds
TimeRemainings == {0, 1, 3, 4, 5, 30, 200, 900}

RECURSIVE Pow2(_)
Pow2(n) == IF n = 0 THEN 1 ELSE 2 * Pow2(n - 1)

\* wait_exponential(multiplier=2, min=4, max=30) after failed attempt n: the
\* delay 2 * 2^(n-1), or 2 * 2^n with earlier releases of the library,
\* kept within [4, 30]
wait_exponential(n) ==
    LET clamp(x) == IF x < 4 THEN 4 ELSE Min(x, 30)
    IN {clamp(2 * Pow2(n - 1)), clamp(2 * Pow2(n))}

\* stop_after_delay(time_remaining) | stop_after_attempt(MAX_RETRY), evaluated
\* when an attempt has failed
stop(attempt_number, seconds_since_start, time_remaining) ==
    \/ seconds_since_start >= time_remaining
    \/ attempt_number >= MAX_RETRY

\* what event_["s3"]["object"].get("versionId") may be for an event about
\* object o: the version id of the object (None when the field is missing), or
\* an empty string
RawVersionIds(o) == {Objects[o].versionId, Str("")}

\* lines 368-369: version_id = unquote(version_id) if version_id else None
\* (the version ids of the model have nothing to unquote)
VersionIdOf(raw) == IF Truthy(raw) THEN raw ELSE None

handlerVars == << pc, msgIdx, nEvents, evIdx, cur, queue, size, ret, errors,
                  send_again, errors2, evLog, bulkLog, endFlushes, msgKind >>

\* lines 453-476 and the first pass through the loop: retry_s3 is entered for
\* a head or a get of some object, with some time remaining
InitRetry ==
    /\ pc = "msg" /\ msgIdx = 0 /\ nEvents = 0 /\ evIdx = 0 /\ cur = NoCur
    /\ queue = << >> /\ size = 0 /\ ret = "none"
    /\ errors = << >> /\ send_again = << >> /\ errors2 = << >>
    /\ evLog = << >> /\ bulkLog = << >> /\ endFlushes = 0 /\ msgKind = "none"
    /\ \E operation \in {"head", "get"}, o \in ObjIds, t \in TimeRemainings :
       \E raw \in RawVersionIds(o) :
         retry = [pc |-> "attempt",
                  attempt_number |-> 1,
                  now |-> 0,
                  started |-> 0,
                  time_remaining |-> t,
                  operation |-> operation,
                  arguments |-> S3Arguments(operation,
                                            IF operation = "get"
                                            THEN Len(Objects[o].body) ELSE 0,
                                            Objects[o].eTag, VersionIdOf(raw)),
                  raw_version |-> raw,
                  etag |-> Objects[o].eTag,
                  response |-> 0]

\* line 484: function_(**arguments) returns a response or raises, after some
\* seconds
RetryAttempt ==
    /\ retry.pc = "attempt"
    /\ \E ok \in BOOLEAN, secs \in 0..MaxAttemptSecs :
         retry' = [retry EXCEPT !.now = @ + secs,
                                !.pc = IF ok THEN "returned" ELSE "failed",
                                !.response = IF ok THEN retry.attempt_number ELSE @]
    /\ UNCHANGED handlerVars

\* line 479: the stop condition after a failed attempt; retry_s3 raises when
\* it holds
RetryStop ==
    /\ retry.pc = "failed"
    /\ retry' = [retry EXCEPT !.pc =
                    IF stop(retry.attempt_number, retry.now, retry.time_remaining)
                    THEN "raised" ELSE "sleep"]
    /\ UNCHANGED handlerVars

\* line 480: the backoff sleep, and the start of the next attempt
RetrySleep ==
    /\ retry.pc = "sleep"
    /\ \E w \in wait_exponential(retry.attempt_number) :
         retry' = [retry EXCEPT !.now = @ + w,
                                !.started = retry.now + w,
                                !.attempt_number = @ + 1,
                                !.pc = "attempt"]
    /\ UNCHANGED handlerVars

NextRetry ==
    \/ RetryAttempt
    \/ RetryStop
    \/ RetrySleep

SpecRetry == InitRetry /\ [][NextRetry]_vars

-----------------------------------------------------------------------------
(* Properties of send_all's resubmission. *)

\* how often reference i occurs in the sequence of references refs
Occurrences(refs, i) == Cardinality({k \in 1..Len(refs) : refs[k] = i})

\* document i of the queue was itself rejected with a mapper_parsing_exception
\* on an index operation in the first bulk write
OwnMapperParsingError(i) ==
    /\ queue[i]._op_type = "index"
    /\ errors[i] = MAPPER_PARSING

\* C1: when the second bulk write is about to be issued, send_again holds
\* exactly the queued documents whose own outcome in the first bulk write was
\* a mapper_parsing_exception on an index operation, each of them once, and
\* no other document, also when several queued documents share one _id.
C1_ResubmitsExactlyOwnFailures ==
    pc = "send_second" =>
        \A i \in 1..Len(queue) :
            Occurrences(send_again, i) = (IF OwnMapperParsingError(i) THEN 1 ELSE 0)

\* a value with nothing in it: {}, None or ""
NothingIn(v) == ~Truthy(v)

\* C2: when the second bulk write is about to be issued, every document in it
\* has nothing left in user_meta and nothing left in system_meta.
C2_ResubmittedMetaCleared ==
    pc = "send_second" =>
        \A k \in 1..Len(send_again) :
            /\ NothingIn(queue[send_again[k]].user_meta)
            /\ NothingIn(queue[send_again[k]].system_meta)

\* C3: the text of every queued document is at most DOC_SIZE_LIMIT_BYTES
\* bytes of UTF-8.
C3_TextWithinDocLimit ==
    \A i \in 1..Len(queue) : Utf8Len(queue[i].text) <= DOC_SIZE_LIMIT_BYTES

-----------------------------------------------------------------------------
(* Properties of the event loop. *)

EventEntries == 1..Len(evLog)

IsDelete(i) == evLog[i].e.eventName = OBJECT_DELETE

\* this step is the one in which the processing of the current event fails
EventFailsNow ==
    /\ Len(evLog') > 0
    /\ evLog'[Len(evLog')].outcome = "raised"
    /\ \/ Len(evLog') > Len(evLog)
       \/ evLog[Len(evLog)].outcome # "raised"

\* the end-of-message flush is called only once every event of the message
\* has been taken and has ended, and the message is left only through it
C4_AllEventsThenFlush ==
    /\ endFlushes > 0 =>
          /\ Len(evLog) = nEvents
          /\ \A i \in EventEntries : evLog[i].outcome \in {"queued", "raised"}
    /\ (pc = "msg" /\ msgKind \in {"records", "no_records"}) => endFlushes = 1

\* a failing event leaves the queued documents as they are and hands control
\* back to the event loop of the same message
C4_FailureKeepsQueue ==
    EventFailsNow =>
        /\ queue' = queue
        /\ pc' = "event"
        /\ nEvents' = nEvents
        /\ evIdx' = Len(evLog')

\* C4: when the processing of one event of a message fails, the documents
\* queued so far stay queued unchanged, the loop goes on with the next event
\* of the message, and the end-of-message flush runs after the last event.
C4_FailedEventDoesNotStopMessage ==
    [](C4_AllEventsThenFlush) /\ [][C4_FailureKeepsQueue]_vars

\* a message whose first event failed, whose second event was queued, and
\* whose end-of-message flush wrote the second event's document
C4_Witness ==
    /\ pc = "msg" /\ endFlushes = 1
    /\ Len(evLog) = 2
    /\ evLog[1].outcome = "raised"
    /\ evLog[2].outcome = "queued"
    /\ Len(bulkLog) = 2
    /\ \E k \in 1..Len(bulkLog[1].docs) : bulkLog[1].docs[k].ev = 2

\* the append call of event i has returned or raised
AppendEnded(i) ==
    /\ evLog[i].added # -1
    /\ \/ i < Len(evLog)
       \/ pc \notin {"send_first", "send_second", "send_clear"}
       \/ ret # "append"

\* C5: an append call performs exactly one implicit flush when the size
\* counter, after this document's capped size was added, exceeds
\* QUEUE_LIMIT_BYTES, and none otherwise.
C5_FlushIffOverLimit ==
    \A i \in EventEntries :
        AppendEnded(i) =>
            evLog[i].flushes = (IF evLog[i].added > QUEUE_LIMIT_BYTES THEN 1 ELSE 0)

\* what does hold of the code: an append call that returns has performed one
\* implicit flush when the counter exceeds QUEUE_LIMIT_BYTES and none otherwise
ReturningAppendFlushesIffOverLimit ==
    \A i \in EventEntries :
        (AppendEnded(i) /\ evLog[i].outcome = "queued") =>
            evLog[i].flushes = (IF evLog[i].added > QUEUE_LIMIT_BYTES THEN 1 ELSE 0)

\* send_all has just returned: to the handler at the end of a message, or to
\* the append call that flushed
SendAllJustReturned ==
    \/ pc = "msg" /\ msgKind \in {"records", "no_records"}
    \/ pc = "event" /\ Len(evLog) > 0 /\ evLog[Len(evLog)].flushes > 0

\* C6: whenever send_all has returned, the queue is empty and the size
\* counter is 0.
C6_SendAllLeavesNothing ==
    SendAllJustReturned => (queue = << >> /\ size = 0)

\* the events whose documents bulk write k carries
BulkEvents(k) == {bulkLog[k].docs[j].ev : j \in 1..Len(bulkLog[k].docs)}

\* bulk writes j and k belong to the same send_all call
SameCall(j, k) == (j + 1) \div 2 = (k + 1) \div 2

\* C7: the bulk writes of a message come in pairs, one pair per send_all call
\* on a non-empty queue: a first write of the whole queue and a second write
\* of documents selected from it; no document of one call is written again
\* by a later call; and as long as nothing was queued no bulk write is issued.
C7_AtMostTwoWritesPerFlush ==
    /\ \A k \in 1..Len(bulkLog) :
          /\ bulkLog[k].kind = (IF k % 2 = 1 THEN "first" ELSE "second")
          /\ k % 2 = 1 => bulkLog[k].docs # << >>
          /\ k % 2 = 0 => BulkEvents(k) \subseteq BulkEvents(k - 1)
    /\ Len(bulkLog) % 2 = 1 <=> pc = "send_second"
    /\ pc = "send_second" => bulkLog[Len(bulkLog)].docs = DocRefs(queue)
    /\ pc = "send_clear" =>
          /\ bulkLog[Len(bulkLog) - 1].docs = DocRefs(queue)
          /\ bulkLog[Len(bulkLog)].docs
                = DocRefs([i \in 1..Len(send_again) |-> queue[send_again[i]]])
    /\ \A j, k \in 1..Len(bulkLog) :
          ~SameCall(j, k) => BulkEvents(j) \cap BulkEvents(k) = {}
    /\ (\A i \in EventEntries : evLog[i].outcome # "queued") => bulkLog = << >>

\* an implicit flush whose second write had a failing document, followed by
\* the end-of-message send_all of the same message
C7_Witness ==
    /\ pc = "msg" /\ endFlushes = 1
    /\ \E i \in EventEntries : evLog[i].flushes = 1
    /\ Len(bulkLog) = 2
    /\ bulkLog[2].docs # << >>
    /\ bulkLog[2].failed

\* the delete document of event i, as a bulk write carries it
DeleteRef(i) ==
    [ev |-> i,
     _id |-> DocId(Objects[evLog[i].e.o].key, Objects[evLog[i].e.o].versionId),
     _op_type |-> "delete",
     text |-> << >>]

DeleteQueued(i) == \E k \in 1..Len(queue) : DocRefs(queue)[k] = DeleteRef(i)

DeleteWritten(i) ==
    \E b \in 1..Len(bulkLog) :
        /\ bulkLog[b].kind = "first"
        /\ \E k \in 1..Len(bulkLog[b].docs) : bulkLog[b].docs[k] = DeleteRef(i)

MessageFinished == pc \in {"msg", "done", "raised"}

\* C8: when the handler has finished a message, a delete document (_op_type
\* delete, empty text, _id of the event's key and version id) has been queued
\* and carried by a bulk write for every permanent-delete event of the message.
C8_EveryDeleteEventWritten ==
    MessageFinished => \A i \in EventEntries : IsDelete(i) => DeleteWritten(i)

\* what does hold of the code: for every permanent-delete event whose head
\* request succeeded, the delete document is queued, and a bulk write has
\* carried it when the handler has finished the message
ResolvedDeleteWritten ==
    \A i \in EventEntries :
        (IsDelete(i) /\ evLog[i].head = "ok"
            /\ (i < Len(evLog) \/ pc # "append_delete")) =>
           /\ DeleteQueued(i) \/ DeleteWritten(i)
           /\ MessageFinished => DeleteWritten(i)

\* C9: no get request is issued for a permanent-delete event.
C9_DeleteIssuesNoGet ==
    \A i \in EventEntries : IsDelete(i) => evLog[i].gets = 0

\* a permanent-delete event for a key with an allow-listed extension has been
\* queued, in a message where another event did fetch content
C9_Witness ==
    \E i, j \in EventEntries :
        /\ IsDelete(i)
        /\ ExtOf(Objects[evLog[i].e.o].key) \in CONTENT_INDEX_EXTS
        /\ evLog[i].outcome = "queued"
        /\ evLog[j].gets > 0

\* the helium value of the object's metadata is there and is not valid JSON
BadHelium(o) ==
    /\ Objects[o].helium # Absent
    /\ JsonLoads(Objects[o].helium.s).raises

\* C10: a non-delete event that got as far as append and whose helium value
\* is not valid JSON is queued, with user_meta, comment and target empty.
C10_BadHeliumStillQueued ==
    \A i \in EventEntries :
        (~IsDelete(i) /\ BadHelium(evLog[i].e.o) /\ evLog[i].added # -1) =>
           /\ evLog[i].outcome = "queued"
           /\ \A k \in 1..Len(queue) :
                 queue[k].ev = i =>
                    /\ queue[k].user_meta = EmptyDict
                    /\ queue[k].comment = Str("")
                    /\ queue[k].target = Str("")

-----------------------------------------------------------------------------
(* The end-of-message flush. *)

\* the handler is between two messages, or has returned
BetweenMessages == pc \in {"msg", "done"}

\* C11 as stated: whenever the handler has finished a message (it is about to
\* take the next one, or has returned), the end-of-message flush of that
\* message was invoked exactly once and the queue is empty.
C11_EveryMessageFlushedOnce ==
    (BetweenMessages /\ msgIdx > 0) => (endFlushes = 1 /\ queue = << >>)

\* C11, amended: the end-of-message flush is invoked at most once per message,
\* and only after every event of the message was processed or skipped; when
\* the handler has finished a message that is not the SQS test event the flush
\* was invoked exactly once, also when every event was skipped; and between
\* two messages, or after the return, no document is queued.
C11_FlushOnceUnlessTestEvent ==
    /\ endFlushes <= 1
    /\ endFlushes = 1 =>
          /\ Len(evLog) = nEvents
          /\ \A i \in EventEntries : evLog[i].outcome # "running"
    /\ (BetweenMessages /\ msgKind \in {"records", "no_records"}) => endFlushes = 1
    /\ BetweenMessages => queue = << >>

\* a message of at least two events, all skipped, was flushed once
C11_Witness ==
    /\ pc = "msg" /\ msgKind = "records"
    /\ nEvents >= 2 /\ Len(evLog) = nEvents
    /\ \A i \in EventEntries : evLog[i].outcome = "raised"
    /\ endFlushes = 1

-----------------------------------------------------------------------------
(* Notebooks whose body does not parse. *)

\* event i is about a notebook whose fetched body could not be turned into text
MalformedNotebook(i) ==
    /\ ContentBranch(ExtOf(Objects[evLog[i].e.o].key)) = "notebook"
    /\ evLog[i].parsed = "failed"

\* the text of every document of event i, in the queue and in the bulk writes
TextsOf(i) ==
    {DocRefs(queue)[k].text : k \in {j \in 1..Len(queue) : DocRefs(queue)[j].ev = i}}
    \cup UNION {{bulkLog[b].docs[k].text :
                    k \in {j \in 1..Len(bulkLog[b].docs) : bulkLog[b].docs[j].ev = i}} :
                b \in 1..Len(bulkLog)}

\* C12: for a notebook whose fetched body is malformed, content extraction
\* returns empty text without raising (the event goes on to the parsing of
\* its metadata with empty text), and the event's document is enqueued, with
\* empty text.
C12_MalformedNotebookQueuedEmpty ==
    \A i \in EventEntries : MalformedNotebook(i) =>
        /\ evLog[i].outcome = "running" => (pc = "helium" /\ cur.text = << >>)
        /\ evLog[i].outcome # "running" =>
              (evLog[i].outcome = "queued" /\ TextsOf(i) = {<< >>})

\* the part of C12 that holds: extraction yields empty text without raising,
\* and a document that is enqueued for the event has empty text
MalformedNotebookYieldsEmptyText ==
    \A i \in EventEntries : MalformedNotebook(i) =>
        /\ evLog[i].outcome = "running" => (pc = "helium" /\ cur.text = << >>)
        /\ evLog[i].outcome = "raised" => (evLog[i].added >= 0 /\ BadHelium(evLog[i].e.o))
        /\ evLog[i].outcome = "queued" => TextsOf(i) = {<< >>}

-----------------------------------------------------------------------------
(* The retry loop of retry_s3. *)

\* the retry loop never makes more than MAX_RETRY attempts
AtMostMaxRetryAttempts == retry.attempt_number <= MAX_RETRY

\* the response returned is that of the attempt that succeeded, the last one
\* made; retry_s3 raises only when the stop condition holds
ReturnsFirstSuccess ==
    /\ retry.pc = "returned" => retry.response = retry.attempt_number
    /\ retry.pc = "raised" =>
          stop(retry.attempt_number, retry.now, retry.time_remaining)

\* C13: retry_s3 makes at most MAX_RETRY attempts, and no attempt starts once
\* the deadline (the time remaining at the entry of the call) has passed; it
\* returns the response of the first successful attempt and raises when the
\* stop condition is met without success.
C13_NoAttemptAfterDeadline ==
    /\ AtMostMaxRetryAttempts
    /\ ReturnsFirstSuccess
    /\ retry.pc = "attempt" => retry.started <= retry.time_remaining

-----------------------------------------------------------------------------
(* Events whose object-store request failed for good. *)

\* retry_s3 raised for event i, on the head or on the get request
RetriesExhausted(i) == evLog[i].head = "failed" \/ evLog[i].get = "failed"

\* C14: an event for which the object-store retries were exhausted, on the
\* head request or on the get request of a notebook or of a plain-text
\* object, is skipped: no document is enqueued for it.
C14_ExhaustedRetriesSkipEvent ==
    \A i \in EventEntries : RetriesExhausted(i) =>
        (evLog[i].outcome # "queued" /\ TextsOf(i) = {})

\* the part of C14 that holds: the event is skipped when the head request or
\* the get request of a plain-text object fails
ExhaustedHeadOrPlainGetSkipsEvent ==
    \A i \in EventEntries :
        (/\ RetriesExhausted(i)
         /\ ContentBranch(ExtOf(Objects[evLog[i].e.o].key)) # "notebook")
        => (evLog[i].outcome = "raised" /\ evLog[i].added = -1 /\ TextsOf(i) = {})

-----------------------------------------------------------------------------
(* Delete documents and the resubmission. *)

\* C15: no document whose operation is delete is in the second (resubmission)
\* bulk write of send_all, whatever the first bulk write reported and whatever
\* else is queued.
C15_NoDeleteResubmitted ==
    /\ pc = "send_second" =>
          \A k \in 1..Len(send_again) : queue[send_again[k]]._op_type # "delete"
    /\ \A b \in 1..Len(bulkLog) : bulkLog[b].kind = "second" =>
          \A k \in 1..Len(bulkLog[b].docs) : bulkLog[b].docs[k]._op_type # "delete"

-----------------------------------------------------------------------------
(* How much the queue holds before a write. *)

\* the documents of the queue that have text
WithText == {k \in 1..Len(queue) : queue[k].text # << >>}

RECURSIVE CountedBytes(_)
\* the sum of min(size, DOC_SIZE_LIMIT_BYTES) over the documents ks of the queue
CountedBytes(ks) ==
    IF ks = {} THEN 0
    ELSE LET k == CHOOSE x \in ks : TRUE
         IN Min(queue[k].size, DOC_SIZE_LIMIT_BYTES) + CountedBytes(ks \ {k})

\* C16 as stated: the number of documents in the queue never exceeds a constant
\* given by QUEUE_LIMIT_BYTES, however many events the message has.  Every
\* document that counts towards the limit counts for at least one byte, and
\* the append that crosses the limit flushes, so the constant is
\* QUEUE_LIMIT_BYTES + 1.
C16_QueueLengthBounded == Len(queue) <= QUEUE_LIMIT_BYTES + 1

\* C16, amended: the documents with non-empty text in the queue are bounded:
\* their counted bytes are at most QUEUE_LIMIT_BYTES whenever the handler is
\* between two events, they exceed it by at most one document's
\* DOC_SIZE_LIMIT_BYTES while the flush that the crossing append triggers is
\* under way, and so there are never more than QUEUE_LIMIT_BYTES + 1 of them.
C16_QueuedTextBounded ==
    /\ CountedBytes(WithText) <= QUEUE_LIMIT_BYTES + DOC_SIZE_LIMIT_BYTES
    /\ pc = "event" => CountedBytes(WithText) <= QUEUE_LIMIT_BYTES
    /\ CountedBytes(WithText) > QUEUE_LIMIT_BYTES =>
          (pc \in {"send_first", "send_second", "send_clear"} /\ ret = "append")
    /\ Cardinality(WithText) <= QUEUE_LIMIT_BYTES + 1

\* the flush triggered by the append of a document with text that crossed the
\* limit is about to write QUEUE_LIMIT_BYTES + 1 documents with text
C16_Witness ==
    /\ pc = "send_first" /\ ret = "append"
    /\ Cardinality(WithText) = QUEUE_LIMIT_BYTES + 1
    /\ CountedBytes(WithText) > QUEUE_LIMIT_BYTES

-----------------------------------------------------------------------------
(* The size counter of the queue. *)

\* C17: in every reachable state the size counter is the sum of
\* min(size, DOC_SIZE_LIMIT_BYTES) over the queued documents with non-empty
\* text, and it is 0 whenever the queue is empty.
C17_SizeIsSumOfQueuedText ==
    /\ size = CountedBytes(WithText)
    /\ queue = << >> => size = 0

\* append raised for some event of the message after it had added to the counter
SomeAppendRaised ==
    \E i \in EventEntries : evLog[i].outcome = "raised" /\ evLog[i].added >= 0

\* what holds of the counter: it is never less than the sum, and it is the sum
\* as long as no append of the message has raised
SizeIsSumUnlessAppendRaised ==
    /\ size >= CountedBytes(WithText)
    /\ (~SomeAppendRaised /\ msgKind \in {"records", "no_records"})
          => size = CountedBytes(WithText)

\* only DocumentQueue.append increases the counter, and only the end of
\* send_all (or a new DocumentQueue) lowers it, to 0
SizeChangedOnlyByAppendAndFlush ==
    [][/\ size' > size => pc \in {"helium", "append_delete"}
       /\ size' < size => (size' = 0 /\ pc \in {"send_clear", "msg"})]_vars

-----------------------------------------------------------------------------
(* Every queued document is written once. *)

\* in how many places of first-attempt bulk writes the document of event i is
FirstAttempts(i) ==
    Cardinality({<<b, k>> \in (1..Len(bulkLog)) \X (1..MaxEventsLong) :
                    /\ bulkLog[b].kind = "first"
                    /\ k <= Len(bulkLog[b].docs)
                    /\ bulkLog[b].docs[k].ev = i})

\* in how many places of the queue the document of event i is
Queued(i) == Cardinality({k \in 1..Len(queue) : queue[k].ev = i})

\* the documents refs are those of events in increasing order
InAppendOrder(refs) ==
    \A j, k \in 1..Len(refs) : j < k => refs[j].ev < refs[k].ev

\* C18: every document appended to the queue during a message is in exactly
\* one first-attempt bulk write by the time the handler has finished the
\* message, and never in two; until it is written it is in the queue, once;
\* the documents of a write are in the order of their appends; and an event
\* for which nothing was appended has no document anywhere.
C18_AppendedWrittenOnceInOrder ==
    /\ \A i \in EventEntries :
          IF evLog[i].outcome = "queued"
          THEN /\ FirstAttempts(i) <= 1
               /\ Queued(i) <= 1
               /\ FirstAttempts(i) + Queued(i) >= 1
               /\ (FirstAttempts(i) = 1 /\ Queued(i) = 1)
                     => pc \in {"send_second", "send_clear"}
               /\ BetweenMessages => FirstAttempts(i) = 1
          ELSE FirstAttempts(i) = 0 /\ Queued(i) = 0
    /\ InAppendOrder(DocRefs(queue))
    /\ \A b \in 1..Len(bulkLog) :
          bulkLog[b].kind = "first" =>
             (bulkLog[b].docs # << >> /\ InAppendOrder(bulkLog[b].docs))

\* a message was finished whose documents went out in two first-attempt
\* writes: one by a threshold flush in the middle of the message, of several
\* documents, and one by the end-of-message flush
C18_Witness ==
    /\ pc = "msg" /\ msgKind = "records"
    /\ \E i \in EventEntries : evLog[i].flushes = 1 /\ i < Len(evLog)
    /\ Cardinality({b \in 1..Len(bulkLog) : bulkLog[b].kind = "first"}) = 2
    /\ \E b \in 1..Len(bulkLog) :
          bulkLog[b].kind = "first" /\ Len(bulkLog[b].docs) >= 2
    /\ \A i \in EventEntries : evLog[i].outcome = "queued"

-----------------------------------------------------------------------------
(* Messages whose envelope is not as expected. *)

\* C19 as stated: when the body or the Message of a message is not valid JSON
\* or lacks the field expected in it (Message in the body, Records in the
\* Message), the handler raises out of the invocation.
C19_UnexpectedEnvelopeRaises ==
    msgKind \in {"bad_envelope", "no_records"} => pc = "raised"

\* C19, amended: when the body or the Message of a message is not valid JSON,
\* or the body has no Message, the handler raises out of the invocation, and
\* in no other case; after that it takes no further step, so no head, get or
\* bulk-write call is issued for that message or for a later one (the calls
\* on record are those of the message before, all finished), and the
\* documents of the earlier messages have been written: none is queued.
C19_BadEnvelopeRaises ==
    /\ msgKind = "bad_envelope" <=> pc = "raised"
    /\ pc = "raised" =>
          /\ ~ENABLED Next
          /\ queue = << >>
          /\ msgIdx = 1 => (evLog = << >> /\ bulkLog = << >>)
          /\ \A i \in EventEntries :
                /\ evLog[i].outcome # "running"
                /\ evLog[i].outcome = "queued" => FirstAttempts(i) = 1

\* the handler raised on the envelope of the second message, after the
\* documents of the first message were written
C19_Witness ==
    /\ pc = "raised" /\ msgIdx = 2
    /\ \E i \in EventEntries : evLog[i].outcome = "queued" /\ FirstAttempts(i) = 1

-----------------------------------------------------------------------------
(* Objects whose extension is not indexed for content. *)

\* event i is not a delete, its head request succeeded, and the extension of
\* its key is outside CONTENT_INDEX_EXTS
NotIndexedCreate(i) ==
    /\ ~IsDelete(i)
    /\ evLog[i].head = "ok"
    /\ ContentBranch(ExtOf(Objects[evLog[i].e.o].key)) = "none"

\* the fields that transform_meta derives from the head metadata of object o
MetaFieldsOf(o) == transform_meta(ParseHelium(MetadataOf(o)))

\* C20: for a non-delete event whose key has an extension outside the
\* allow-list no get request is issued, and a document with empty text is
\* enqueued for it.
C20_NotIndexedQueuedWithoutGet ==
    \A i \in EventEntries : NotIndexedCreate(i) =>
        /\ evLog[i].gets = 0
        /\ evLog[i].outcome # "running" =>
              (evLog[i].outcome = "queued" /\ TextsOf(i) = {<< >>})

\* the part of C20 that holds: no get request is issued; the event ends
\* without a document only when its helium metadata did not parse; and the
\* document that is enqueued has empty text and the comment and target of the
\* object's metadata
NotIndexedNoGetEmptyText ==
    \A i \in EventEntries : NotIndexedCreate(i) =>
        /\ evLog[i].gets = 0 /\ evLog[i].get = "none"
        /\ evLog[i].outcome = "raised" => BadHelium(evLog[i].e.o)
        /\ evLog[i].outcome = "queued" =>
              /\ TextsOf(i) = {<< >>}
              /\ \A k \in 1..Len(queue) : queue[k].ev = i =>
                    /\ queue[k].comment = MetaFieldsOf(evLog[i].e.o).comment
                    /\ queue[k].target = MetaFieldsOf(evLog[i].e.o).target

-----------------------------------------------------------------------------
(* The version pin of the requests. *)

\* C21: the arguments of every head or get request of retry_s3, in its first
\* and in every later attempt, hold exactly one version pin: VersionId, with
\* the version id of the event, when the event has a (non-empty) version id,
\* and otherwise IfMatch with the etag of the event; never both and never
\* neither.
C21_ExactlyOneVersionPin ==
    LET a == retry.arguments
    IN /\ retry.operation \in {"head", "get"}
       /\ (a.VersionId = Absent) # (a.IfMatch = Absent)
       /\ IF Truthy(retry.raw_version)
          THEN a.VersionId = retry.raw_version /\ a.IfMatch = Absent
          ELSE a.IfMatch = Str(retry.etag) /\ a.VersionId = Absent

\* a get request for an event whose versionId is an empty string is in its
\* second attempt, pinned by IfMatch alone
C21_Witness ==
    /\ retry.pc = "attempt" /\ retry.attempt_number = 2
    /\ retry.operation = "get"
    /\ retry.raw_version = Str("")
    /\ retry.arguments.IfMatch = Str(retry.etag)
    /\ retry.arguments.VersionId = Absent
====
